---------------------------- MODULE Spec2Model ----------------------------
(***************************************************************************)
(* A model of src/raytrace.cpp: the intersection routines, the scene       *)
(* intersector, the recursive shader cast_ray and the driver main.         *)
(*                                                                         *)
(* Numbers.  The program computes in IEEE float.  The model computes a     *)
(* float as an exact number of the form a + b*sqrt(q) with a, b, q         *)
(* rationals (what the float operations +, -, *, /, sqrt produce without   *)
(* rounding), together with the IEEE values +inf, -inf and NaN that the    *)
(* divisions of ray_cube_intersect produce, and the literal 1e10.          *)
(* A rational is a pair <<n, d>> in lowest terms with d > 0.               *)
(***************************************************************************)
EXTENDS Integers, Sequences, FiniteSets, TLC

VARIABLES
    \* cast_ray on one ray of the scene (lines 179-182)
    ray_orig,   \* the ray's origin
    ray_dir,    \* the ray's unit direction
    loc,        \* scene_intersect's locals after the plane, the spheres, the box
    sres,       \* what ray_sphere_intersect returned for each sphere (line 159)
    cres,       \* what ray_cube_intersect returned (line 167)
    res,        \* what scene_intersect returned (line 180)
    ret,        \* what cast_ray returned
    spc,        \* "idle", "intersected", "returned"
    \* the recursion of cast_ray and of refract (lines 76-82, 179-198)
    stack,      \* the active calls of cast_ray, the outermost first
    rstack,     \* the active calls of refract, the outermost first
    root,       \* the depth argument of the outermost call of cast_ray
    cdone,      \* the outermost call of cast_ray has returned
    maxdepth,   \* the largest depth argument passed so far
    rnest,      \* the largest number of nested calls of refract so far
    \* the parallel loop of main (lines 204-211)
    scene,      \* the scene data of lines 49-69
    framebuffer,\* the vector of line 204
    owner,      \* the task that executes each iteration
    task,       \* each task's position in its current iteration and its locals
    iterated,   \* the iterations each task has completed
    writes,     \* for each slot, the tasks that stored to it, in order
    mpc,        \* main: "loop", "joined"
    \* the output loop of main (lines 216-220)
    color,      \* the framebuffer element being written
    max,        \* the local of line 217
    chan,       \* the channel about to be written
    ofs,        \* the bytes written for this element
    char_signed \* whether the build's plain char is signed

sceneVars == <<ray_orig, ray_dir, loc, sres, cres, res, ret, spc>>

castVars == <<stack, rstack, root, cdone, maxdepth, rnest>>

pixVars == <<scene, framebuffer, owner, task, iterated, writes, mpc>>

outVars == <<color, max, chan, ofs, char_signed>>

vars == <<sceneVars, castVars, pixVars, outVars>>

-----------------------------------------------------------------------------
(* Rationals *)

Abs(x) == IF x < 0 THEN -x ELSE x

Sgn(x) == IF x < 0 THEN -1 ELSE IF x > 0 THEN 1 ELSE 0

RECURSIVE Gcd(_, _)
Gcd(a, b) == IF b = 0 THEN a ELSE Gcd(b, a % b)

Frac(n, d) ==
    LET s == IF d < 0 THEN -1 ELSE 1
        g == Gcd(Abs(n), Abs(d))
    IN  <<(s * n) \div g, (s * d) \div g>>

Q(n) == <<n, 1>>

QNeg(x) == <<-x[1], x[2]>>

QAdd(x, y) ==
    LET g == Gcd(x[2], y[2])
    IN  Frac(x[1] * (y[2] \div g) + y[1] * (x[2] \div g), (x[2] \div g) * y[2])

QSub(x, y) == QAdd(x, QNeg(y))

QMul(x, y) ==
    LET g1 == Gcd(Abs(x[1]), y[2])
        g2 == Gcd(Abs(y[1]), x[2])
    IN  <<(x[1] \div g1) * (y[1] \div g2), (x[2] \div g2) * (y[2] \div g1)>>

\* Defined for y # 0 only; FDiv below gives the IEEE result for a zero divisor.
QDiv(x, y) == QMul(x, Frac(y[2], y[1]))

QSgn(x) == Sgn(x[1])

QAbs(x) == <<Abs(x[1]), x[2]>>

\* The sign of x - y, by comparing integer parts and then the reciprocals of the
\* fractional parts, so that no product of the two fractions is ever formed.
RECURSIVE QCmp(_, _)
QCmp(x, y) ==
    LET fx == x[1] \div x[2]
        fy == y[1] \div y[2]
        rx == x[1] % x[2]
        ry == y[1] % y[2]
    IN  IF fx # fy THEN Sgn(fx - fy)
        ELSE IF rx = 0 /\ ry = 0 THEN 0
        ELSE IF rx = 0 THEN -1
        ELSE IF ry = 0 THEN 1
        ELSE QCmp(<<y[2], ry>>, <<x[2], rx>>)

QLt(x, y) == QCmp(x, y) = -1

QLe(x, y) == QCmp(x, y) # 1

\* The integer square root of n >= 0, by bisection on [lo, hi].
RECURSIVE ISqrtIn(_, _, _)
ISqrtIn(n, lo, hi) ==
    IF lo >= hi THEN lo
    ELSE LET mid == (lo + hi + 1) \div 2
         IN  IF mid <= n \div mid THEN ISqrtIn(n, mid, hi) ELSE ISqrtIn(n, lo, mid - 1)

ISqrt(n) == ISqrtIn(n, 0, IF n < 46340 THEN n ELSE 46340)

IsSquare(n) == ISqrt(n) * ISqrt(n) = n

-----------------------------------------------------------------------------
(* Floats: a + b*sqrt(q), the IEEE specials, and the literal 1e10 *)

Zero == Q(0)

Fin(a) == [k |-> "fin", a |-> a, b |-> Zero, q |-> Zero]

F(n) == Fin(Q(n))

FR(n, d) == Fin(Frac(n, d))

PInf == [k |-> "pinf", a |-> Zero, b |-> Zero, q |-> Zero]

NInf == [k |-> "ninf", a |-> Zero, b |-> Zero, q |-> Zero]

NaN == [k |-> "nan", a |-> Zero, b |-> Zero, q |-> Zero]

\* The literal 1e10 of scene_intersect: above every finite number of the model,
\* whose numerators are below 2^31.
E10 == [k |-> "e10", a |-> Zero, b |-> Zero, q |-> Zero]

\* a + b*sqrt(q) in canonical form: no radical when b = 0 or q is a square.
Surd(a, b, q) ==
    IF b = Zero \/ q = Zero THEN Fin(a)
    ELSE IF IsSquare(q[1]) /\ IsSquare(q[2])
         THEN Fin(QAdd(a, QMul(b, Frac(ISqrt(q[1]), ISqrt(q[2])))))
         ELSE [k |-> "fin", a |-> a, b |-> b, q |-> q]

IsRat(x) == x.k = "fin" /\ x.b = Zero

FNeg(x) ==
    CASE x.k = "fin" -> [x EXCEPT !.a = QNeg(x.a), !.b = QNeg(x.b)]
      [] x.k = "pinf" -> NInf
      [] x.k = "ninf" -> PInf
      [] x.k = "nan" -> NaN

\* Sums and products are formed of two numbers of the same radical (or of a
\* radical and a rational): the only ones the modelled code forms.
FAdd(x, y) ==
    CASE IsRat(x) /\ y.k = "fin" -> Surd(QAdd(x.a, y.a), y.b, y.q)
      [] x.k = "fin" /\ IsRat(y) -> Surd(QAdd(x.a, y.a), x.b, x.q)
      [] x.k = "fin" /\ y.k = "fin" /\ x.q = y.q ->
            Surd(QAdd(x.a, y.a), QAdd(x.b, y.b), x.q)

FSub(x, y) == FAdd(x, FNeg(y))

FMul(x, y) ==
    CASE IsRat(x) /\ y.k = "fin" -> Surd(QMul(x.a, y.a), QMul(x.a, y.b), y.q)
      [] x.k = "fin" /\ IsRat(y) -> Surd(QMul(x.a, y.a), QMul(x.b, y.a), x.q)
      [] x.k = "fin" /\ y.k = "fin" /\ x.q = y.q ->
            Surd(QAdd(QMul(x.a, y.a), QMul(QMul(x.b, y.b), x.q)),
                 QAdd(QMul(x.a, y.b), QMul(x.b, y.a)), x.q)

\* IEEE division of two rationals: x/0 is +inf, -inf or NaN by the sign of x.
FDiv(x, y) ==
    CASE IsRat(x) /\ IsRat(y) /\ y.a # Zero -> Fin(QDiv(x.a, y.a))
      [] IsRat(x) /\ IsRat(y) /\ y.a = Zero /\ QSgn(x.a) = 1 -> PInf
      [] IsRat(x) /\ IsRat(y) /\ y.a = Zero /\ QSgn(x.a) = -1 -> NInf
      [] IsRat(x) /\ IsRat(y) /\ y.a = Zero /\ QSgn(x.a) = 0 -> NaN
      [] x.k = "fin" /\ ~IsRat(x) /\ IsRat(y) /\ y.a # Zero ->
            Surd(QDiv(x.a, y.a), QDiv(x.b, y.a), x.q)

\* std::sqrt of a non-negative rational.
FSqrt(x) ==
    CASE IsRat(x) /\ QSgn(x.a) >= 0 -> Surd(Zero, Q(1), x.a)

\* The sign of b1*sqrt(q1) + b2*sqrt(q2).
SgnSum(b1, q1, b2, q2) ==
    LET s1 == QSgn(b1) * QSgn(q1)
        s2 == QSgn(b2) * QSgn(q2)
    IN  IF s1 = s2 \/ s2 = 0 THEN s1
        ELSE IF s1 = 0 THEN s2
        ELSE s1 * QCmp(QMul(QMul(b1, b1), q1), QMul(QMul(b2, b2), q2))

\* The sign of x^2 - y for rationals x > 0, y >= 0, as the sign of x - y/x.
CmpSq(x, y) == QCmp(x, QDiv(y, x))

\* The sign of m - t*sqrt(w), w >= 0.
SgnDiff(m, t, w) ==
    LET sm == QSgn(m)
        st == QSgn(t) * QSgn(w)
    IN  IF st = 0 THEN sm
        ELSE IF sm # st THEN -st
        ELSE sm * CmpSq(QAbs(m), QMul(QMul(t, t), w))

\* The sign of x - y for finite x, y: with A = x.a - y.a and
\* S = x.b*sqrt(x.q) - y.b*sqrt(y.q), the sign of A + S. When A and S have
\* opposite signs, A^2 is compared with S^2 = P + R + 2*B*C*sqrt(q1*q2),
\* which is at most 2*(P + R).
FinCmp(x, y) ==
    LET A == QSub(x.a, y.a)
        B == x.b
        C == QNeg(y.b)
        sA == QSgn(A)
        sS == SgnSum(B, x.q, C, y.q)
    IN  IF IsRat(x) /\ IsRat(y) THEN QCmp(x.a, y.a)
        ELSE IF sS = 0 \/ sA = sS THEN sA
        ELSE IF sA = 0 THEN sS
        ELSE LET P == QMul(QMul(B, B), x.q)
                 R == QMul(QMul(C, C), y.q)
                 d == IF P = Zero THEN CmpSq(QAbs(A), R)
                      ELSE IF R = Zero THEN CmpSq(QAbs(A), P)
                      ELSE IF QLe(Q(1), QAbs(A)) /\ QLt(QMul(Q(2), QAdd(P, R)), QAbs(A))
                      THEN 1
                      ELSE SgnDiff(QSub(QMul(A, A), QAdd(P, R)),
                                   QMul(Q(2), QMul(B, C)), QMul(x.q, y.q))
             IN  IF d = 0 THEN 0 ELSE IF d = 1 THEN sA ELSE sS

\* The float comparisons: false whenever an operand is NaN.
FGt(x, y) ==
    CASE x.k = "nan" \/ y.k = "nan" -> FALSE
      [] x.k = "ninf" \/ y.k = "pinf" -> FALSE
      [] x.k = "pinf" \/ y.k = "ninf" -> TRUE
      [] x.k = "e10" -> y.k # "e10"
      [] y.k = "e10" -> FALSE
      [] OTHER -> FinCmp(x, y) = 1

FLt(x, y) == FGt(y, x)

FEq(x, y) ==
    CASE x.k = "nan" \/ y.k = "nan" -> FALSE
      [] x.k = "fin" /\ y.k = "fin" -> FinCmp(x, y) = 0
      [] OTHER -> x.k = y.k

FGe(x, y) == FGt(x, y) \/ FEq(x, y)

FAbs(x) == IF FLt(x, F(0)) THEN FNeg(x) ELSE x


\* A conversion that rounds toward minus infinity.
FToIntFloor(x) ==
    CASE IsRat(x) -> x.a[1] \div x.a[2]

\* int(x) of a finite rational float: truncation toward zero.
FToInt(x) ==
    CASE IsRat(x) -> Sgn(x.a[1]) * (Abs(x.a[1]) \div x.a[2])

-----------------------------------------------------------------------------
(* vec3 *)

V(x, y, z) == <<F(x), F(y), F(z)>>

VAdd(v, w) == <<FAdd(v[1], w[1]), FAdd(v[2], w[2]), FAdd(v[3], w[3])>>

VSub(v, w) == <<FSub(v[1], w[1]), FSub(v[2], w[2]), FSub(v[3], w[3])>>

VNeg(v) == <<FNeg(v[1]), FNeg(v[2]), FNeg(v[3])>>

VScale(v, f) == <<FMul(v[1], f), FMul(v[2], f), FMul(v[3], f)>>

Dot(v, w) == FAdd(FAdd(FMul(v[1], w[1]), FMul(v[2], w[2])), FMul(v[3], w[3]))

norm(v) == FSqrt(Dot(v, v))

normalized(v) == VScale(v, FDiv(F(1), norm(v)))

-----------------------------------------------------------------------------
(* Materials and the scene *)

Mat(ri, a0, a1, a2, a3, dc, se) ==
    [refractive_index |-> ri, albedo |-> <<a0, a1, a2, a3>>,
     diffuse_color |-> dc, specular_exponent |-> se]

\* Material's default member initializers.
DefaultMaterial == Mat(F(1), F(2), F(0), F(0), F(0), V(0, 0, 0), F(0))

marble == Mat(F(1), FR(8, 10), FR(2, 10), F(0), F(0),
              <<FR(5, 10), FR(5, 10), FR(5, 10)>>, F(30))

water == Mat(FR(13, 10), FR(1, 10), FR(4, 10), FR(7, 10), FR(5, 10),
             <<FR(2, 10), FR(5, 10), FR(8, 10)>>, F(100))

shiny_red == Mat(F(1), FR(12, 10), FR(3, 10), F(0), FR(1, 10),
                 <<FR(7, 10), FR(1, 10), FR(1, 10)>>, F(200))

bronze == Mat(F(1), FR(4, 10), FR(3, 10), FR(2, 10), FR(1, 10),
              <<FR(8, 10), FR(7, 10), FR(5, 10)>>, F(500))

spheres ==
    << [center |-> V(-2, 1, -15), radius |-> FR(3, 2), material |-> marble],
       [center |-> V(0, 4, -12), radius |-> F(2), material |-> water],
       [center |-> V(2, 0, -18), radius |-> FR(5, 2), material |-> shiny_red],
       [center |-> V(5, 3, -20), radius |-> FR(7, 2), material |-> bronze] >>

cube == [center |-> V(0, -1, -10), size |-> F(2), material |-> water]

lights == << V(-15, 10, 25), V(20, 30, -30), V(10, 10, 15) >>

\* The scene data shared by every call of cast_ray.
SceneData == [spheres |-> spheres, cube |-> cube, lights |-> lights]

\* The literal .001 of the distance tests.
Eps == FR(1, 1000)

CheckerOdd == <<FR(4, 10), FR(4, 10), FR(4, 10)>>

CheckerEven == <<FR(4, 10), FR(3, 10), FR(2, 10)>>

Background == <<FR(2, 10), FR(7, 10), FR(8, 10)>>

-----------------------------------------------------------------------------
(* Intersection routines *)

Miss == [hit |-> FALSE, d |-> F(0)]

\* The same choice with the farther root tried first.
SphereRootFarFirst(t0, t1) ==
    IF FGt(t1, Eps) THEN [hit |-> TRUE, d |-> t1]
    ELSE IF FGt(t0, Eps) THEN [hit |-> TRUE, d |-> t0]
    ELSE Miss

\* Lines 92-94: t0 if it exceeds .001, else t1 if it does, else no hit.
SphereRoot(t0, t1) ==
    IF FGt(t0, Eps) THEN [hit |-> TRUE, d |-> t0]
    ELSE IF FGt(t1, Eps) THEN [hit |-> TRUE, d |-> t1]
    ELSE Miss

\* Lines 90-91: t0 = tca - thc and t1 = tca + thc.
SphereRoots(tca, thc) == SphereRoot(FSub(tca, thc), FAdd(tca, thc))

\* Lines 88-89: no hit when d2 > radius^2; thc = sqrt(radius^2 - d2).
SphereTest(tca, d2, r2) ==
    IF FGt(d2, r2) THEN Miss ELSE SphereRoots(tca, FSqrt(FSub(r2, d2)))

\* Lines 86-87: tca = L*dir and d2 = L*L - tca*tca.
SphereFrom(L, dir, radius) ==
    SphereTest(Dot(L, dir), FSub(Dot(L, L), FMul(Dot(L, dir), Dot(L, dir))),
               FMul(radius, radius))

ray_sphere_intersect(orig, dir, s) == SphereFrom(VSub(s.center, orig), dir, s.radius)

CubeMiss == [hit |-> FALSE, d |-> F(0), N |-> V(0, 0, 0)]

\* The slab bound (c.center[i] -/+ c.size/2 - orig[i]) / dir[i]; sgn is -1 or 1.
SlabT(orig, dir, c, i, sgn) ==
    FDiv(FSub(FAdd(c.center[i], FMul(F(sgn), FDiv(c.size, F(2)))), orig[i]), dir[i])

OneIf(b) == IF b THEN F(1) ELSE F(0)

\* The normal of lines 131-135: a 1 on every axis one of whose two slab bounds
\* compares equal to tmin.
CubeNormal(orig, dir, c, tmin) ==
    << OneIf(FEq(tmin, SlabT(orig, dir, c, 1, -1)) \/ FEq(tmin, SlabT(orig, dir, c, 1, 1))),
       OneIf(FEq(tmin, SlabT(orig, dir, c, 2, -1)) \/ FEq(tmin, SlabT(orig, dir, c, 2, 1))),
       OneIf(FEq(tmin, SlabT(orig, dir, c, 3, -1)) \/ FEq(tmin, SlabT(orig, dir, c, 3, 1))) >>

\* The distance test of line 130.
CubeAccepts(tmin) == FGt(tmin, F(0))

\* Lines 99-101: the two bounds of axis i, the smaller first; the swap is
\* not made when the comparison is false.
Slab(orig, dir, c, i) ==
    IF FGt(SlabT(orig, dir, c, i, -1), SlabT(orig, dir, c, i, 1))
    THEN <<SlabT(orig, dir, c, i, 1), SlabT(orig, dir, c, i, -1)>>
    ELSE <<SlabT(orig, dir, c, i, -1), SlabT(orig, dir, c, i, 1)>>

\* Lines 107-114 and 120-127: the interval t = <<tmin, tmax>> is narrowed by
\* the interval u of the next axis; <<>> stands for the early return.
Narrow(t, u) ==
    IF t = <<>> THEN <<>>
    ELSE IF FGt(t[1], u[2]) \/ FGt(u[1], t[2]) THEN <<>>
    ELSE << IF FGt(u[1], t[1]) THEN u[1] ELSE t[1],
            IF FLt(u[2], t[2]) THEN u[2] ELSE t[2] >>

\* Lines 129-138.
CubeResult(orig, dir, c, t) ==
    IF t = <<>> THEN CubeMiss
    ELSE IF CubeAccepts(t[1])
    THEN [hit |-> TRUE, d |-> t[1], N |-> CubeNormal(orig, dir, c, t[1])]
    ELSE CubeMiss

ray_cube_intersect(orig, dir, c) ==
    CubeResult(orig, dir, c,
               Narrow(Narrow(Slab(orig, dir, c, 1), Slab(orig, dir, c, 2)),
                      Slab(orig, dir, c, 3)))

-----------------------------------------------------------------------------
(* The scene intersector *)

\* The checkerboard shade of line 154; & 1 is the parity of the int sum.
PlaneColor(pt) ==
    IF (FToInt(FAdd(FMul(FR(1, 2), pt[1]), F(1000))) + FToInt(FMul(FR(1, 2), pt[3]))) % 2 = 1
    THEN CheckerOdd ELSE CheckerEven

\* The locals of scene_intersect as declared on lines 143-146.
SceneLocals0 ==
    [nearest_dist |-> E10, pt |-> V(0, 0, 0), N |-> V(0, 0, 0), material |-> DefaultMaterial]

\* A plane without bounds.
PlaneUnbounded(p) == TRUE

\* Line 150: the extent of the checkerboard.
PlaneExtent(p) == FLt(FAbs(p[1]), F(12)) /\ FLt(p[3], F(-12)) /\ FGt(p[3], F(-28))

\* Lines 150-155: the test of the plane's hit at distance d, point p.
ScenePlaneHit(st, d, p) ==
    IF FGt(d, Eps) /\ FLt(d, st.nearest_dist) /\ PlaneExtent(p)
    THEN [st EXCEPT !.nearest_dist = d, !.pt = p, !.N = V(0, 1, 0),
                    !.material.diffuse_color = PlaneColor(p)]
    ELSE st

\* Line 149: the point of the ray at distance d.
ScenePlaneAt(orig, dir, st, d) == ScenePlaneHit(st, d, VAdd(orig, VScale(dir, d)))

\* Lines 147-156: the ground plane.
ScenePlane(orig, dir, st) ==
    IF FGt(FAbs(dir[2]), Eps)
    THEN ScenePlaneAt(orig, dir, st, FNeg(FDiv(FAdd(orig[2], F(3)), dir[2])))
    ELSE st

\* A loop that skips a sphere only when the ray misses it.
SphereSkippedOnMiss(r, st) == ~r.hit

\* Line 160: the sphere is skipped when missed or farther than the nearest hit.
SphereSkipped(r, st) == ~r.hit \/ FGt(r.d, st.nearest_dist)

\* Lines 161-164: the sphere's hit at distance d, point pt, becomes the nearest.
SceneSphereAt(s, d, pt) ==
    [nearest_dist |-> d, pt |-> pt, N |-> normalized(VSub(pt, s.center)),
     material |-> s.material]

\* Lines 160-164: r is what ray_sphere_intersect returned.
SceneSphereHit(orig, dir, s, st, r) ==
    IF SphereSkipped(r, st) THEN st
    ELSE SceneSphereAt(s, r.d, VAdd(orig, VScale(dir, r.d)))

\* Lines 158-165: one iteration of the loop over the spheres.
SceneSphere(orig, dir, s, st) ==
    SceneSphereHit(orig, dir, s, st, ray_sphere_intersect(orig, dir, s))

RECURSIVE SceneSpheres(_, _, _, _)
SceneSpheres(orig, dir, i, st) ==
    IF i > Len(spheres) THEN st
    ELSE SceneSpheres(orig, dir, i + 1, SceneSphere(orig, dir, spheres[i], st))

\* Lines 167-173: the box.
SceneCubeHit(orig, dir, st, r) ==
    IF r.hit /\ FLt(r.d, st.nearest_dist)
    THEN [nearest_dist |-> r.d, pt |-> VAdd(orig, VScale(dir, r.d)),
          N |-> r.N, material |-> cube.material]
    ELSE st

SceneCube(orig, dir, st) == SceneCubeHit(orig, dir, st, ray_cube_intersect(orig, dir, cube))

\* The locals of scene_intersect when it returns.
SceneLocals(orig, dir) ==
    SceneCube(orig, dir, SceneSpheres(orig, dir, 1, ScenePlane(orig, dir, SceneLocals0)))

\* Line 175: the returned tuple.
SceneReturn(st) ==
    [hit |-> FLt(st.nearest_dist, F(1000)), pt |-> st.pt, N |-> st.N,
     material |-> st.material]

scene_intersect(orig, dir) == SceneReturn(SceneLocals(orig, dir))


-----------------------------------------------------------------------------
(* cast_ray on the rays of a grid: the call of scene_intersect and the test *)
(* of line 181                                                              *)

\* The depth limit of line 181.
DepthLimit == 4

\* A base case one level later.
ReturnsBackgroundLate(depth, hit) == depth > DepthLimit + 1 \/ ~hit

\* Line 181: the base case of cast_ray.
ReturnsBackground(depth, hit) == depth > DepthLimit \/ ~hit

\* Bounds of the grid of ray origins.
GridX == 1
GridY == 1
GridZ == 4

\* Origins: a grid around the scene (the camera <<0, 0, 0>> and <<0, 5, 0>>
\* are on it, and so are points in the planes of the box's faces), the centre
\* and a surface point of every sphere, a point 0.0005 in front of a face of
\* the box, points from which a ray enters the box through an edge, and a
\* point 2000 away.
GridOrigins ==
    { V(x, 5 - 5 * j, -5 * k) : x \in -GridX .. GridX, j \in 0 .. GridY, k \in 0 .. GridZ }

SpecialOrigins ==
    { spheres[i].center : i \in 1 .. Len(spheres) }
    \cup { VAdd(spheres[i].center, <<F(0), F(0), spheres[i].radius>>) : i \in 1 .. Len(spheres) }
    \cup { <<FR(-2001, 2000), F(-1), F(-10)>>, <<F(0), F(-1), FR(-17999, 2000)>>,
           V(-4, -6, -10), V(-4, -5, -14), V(0, -1, 2000), V(2, 4, 0), V(0, 5, -13) }

Origins == GridOrigins \cup SpecialOrigins

\* Unit directions with rational components, in every sign: the axes and the
\* Pythagorean triples and quadruples (3,4,0)/5, (1,2,2)/3 and (2,10,11)/15.
Signed(t) ==
    { <<FR(sx * t[1], t[4]), FR(sy * t[2], t[4]), FR(sz * t[3], t[4])>> :
        sx \in {-1, 1}, sy \in {-1, 1}, sz \in {-1, 1} }

Dirs ==
    UNION { Signed(t) : t \in
        { <<1, 0, 0, 1>>, <<0, 1, 0, 1>>, <<0, 0, 1, 1>>,
          <<3, 4, 0, 5>>, <<4, 3, 0, 5>>, <<0, 3, 4, 5>>, <<0, 4, 3, 5>>,
          <<3, 0, 4, 5>>, <<4, 0, 3, 5>>,
          <<1, 2, 2, 3>>, <<2, 1, 2, 3>>, <<2, 2, 1, 3>>,
          <<2, 10, 11, 15>> } }

\* The far origin, the fine origins and the rays of the grid.
Rays ==
    { <<o, d>> \in Origins \X Dirs :
        \/ o \in GridOrigins
        \/ d[1].a[2] = 1 /\ d[2].a[2] = 1 /\ d[3].a[2] = 1
        \/ o \in { V(-4, -6, -10), V(-4, -5, -14) } }

SphereResults(o, d) == [i \in 1 .. Len(spheres) |-> ray_sphere_intersect(o, d, spheres[i])]

StagesAfterSpheres(o, d, p, s) == <<p, s, SceneCube(o, d, s)>>

StagesAfterPlane(o, d, p) == StagesAfterSpheres(o, d, p, SceneSpheres(o, d, 1, p))

SceneStages(o, d) ==
    StagesAfterPlane(o, d, ScenePlane(o, d, SceneLocals0))

\* cast_ray's result: the background colour, or the colour of line 197, of
\* which the model keeps the material it is computed from.
cast_ray_result(depth, r) ==
    IF ReturnsBackground(depth, r.hit)
    THEN [background |-> TRUE, color |-> Background, material |-> DefaultMaterial]
    ELSE [background |-> FALSE, color |-> r.material.diffuse_color, material |-> r.material]

NoLocals == <<SceneLocals0, SceneLocals0, SceneLocals0>>

NoResult == [hit |-> FALSE, pt |-> V(0, 0, 0), N |-> V(0, 0, 0), material |-> DefaultMaterial]

\* No ray is being traced.
SceneIdle ==
    /\ ray_orig = V(0, 0, 0)
    /\ ray_dir = V(0, 0, -1)
    /\ loc = NoLocals
    /\ sres = [i \in 1 .. Len(spheres) |-> Miss]
    /\ cres = CubeMiss
    /\ res = NoResult
    /\ ret = cast_ray_result(0, NoResult)
    /\ spc = "idle"

\* No call of cast_ray is active.
CastIdle ==
    /\ stack = <<>>
    /\ rstack = <<>>
    /\ root = 0
    /\ cdone = FALSE
    /\ maxdepth = 0
    /\ rnest = 0

\* main has not reached the pixel loop.
PixIdle ==
    /\ scene = SceneData
    /\ framebuffer = <<>>
    /\ owner = <<>>
    /\ task = <<>>
    /\ iterated = <<>>
    /\ writes = <<>>
    /\ mpc = "start"

\* main has not reached the output loop.
OutIdle ==
    /\ color = V(0, 0, 0)
    /\ max = F(1)
    /\ chan = -1
    /\ ofs = <<>>
    /\ char_signed = TRUE

InitScene == SceneIdle /\ CastIdle /\ PixIdle /\ OutIdle

\* cast_ray(o, d) is called and calls scene_intersect (line 180).
SceneIntersectCall(o, d) ==
    /\ spc = "idle"
    /\ ray_orig' = o
    /\ ray_dir' = d
    /\ loc' = SceneStages(o, d)
    /\ sres' = SphereResults(o, d)
    /\ cres' = ray_cube_intersect(o, d, cube)
    /\ res' = SceneReturn(loc'[3])
    /\ spc' = "intersected"
    /\ UNCHANGED <<ret, castVars, pixVars, outVars>>

\* Lines 181-197 at depth 0.
CastRayReturn ==
    /\ spc = "intersected"
    /\ ret' = cast_ray_result(0, res)
    /\ spc' = "returned"
    /\ UNCHANGED <<ray_orig, ray_dir, loc, sres, cres, res, castVars, pixVars, outVars>>

\* The caller goes on to its next ray.
NextRay ==
    /\ spc = "returned"
    /\ ray_orig' = V(0, 0, 0)
    /\ ray_dir' = V(0, 0, -1)
    /\ loc' = NoLocals
    /\ sres' = [i \in 1 .. Len(spheres) |-> Miss]
    /\ cres' = CubeMiss
    /\ res' = NoResult
    /\ ret' = cast_ray_result(0, NoResult)
    /\ spc' = "idle"
    /\ UNCHANGED <<castVars, pixVars, outVars>>

NextScene ==
    \/ \E r \in Rays : SceneIntersectCall(r[1], r[2])
    \/ CastRayReturn
    \/ NextRay

SpecScene == InitScene /\ [][NextScene]_vars

-----------------------------------------------------------------------------
(* The recursion of cast_ray and of refract.  What scene_intersect reports *)
(* for a reflected or refracted ray is any of its outcomes; refract is     *)
(* given the dot product I*N, in halves.                                   *)

\* The largest depth argument of an outermost call.
MaxRootDepth == 6

\* The largest |I*N| given to refract, in halves (a normal of the box can
\* have norm above 1, so that I*N can lie outside [-1, 1]).
MaxDot == 3

\* Caps on the number of active calls.
MaxStack == 8
MaxRefractNest == 4

Min(a, b) == IF b < a THEN b ELSE a

Max(a, b) == IF a < b THEN b ELSE a

\* Line 77: cosi = -max(-1, min(1, I*N)), in halves.
Cosi(dot) == -Max(-2, Min(2, dot))

\* A recursive call of refract that keeps N.
RefractArgsSameN(f) == [dot |-> f.dot, eta_t |-> f.eta_i, eta_i |-> f.eta_t, pc |-> "run"]

\* Line 78: the arguments of the recursive call, refract(I, -N, eta_i, eta_t);
\* I*(-N) = -(I*N).
RefractArgs(f) == [dot |-> -f.dot, eta_t |-> f.eta_i, eta_i |-> f.eta_t, pc |-> "run"]

Top(s) == s[Len(s)]

Pop(s) == SubSeq(s, 1, Len(s) - 1)

SetTop(s, f) == [s EXCEPT ![Len(s)] = f]

\* A new call of cast_ray (line 179).
Frame(depth) == [depth |-> depth, pc |-> "intersect", light |-> 0, lit |-> 0]

\* The caller resumes after the call of line 186 or of line 187.
Resume(f) ==
    [f EXCEPT !.pc = IF f.pc = "reflect_wait" THEN "refract_call" ELSE "lights"]

\* cast_ray returns (line 182 or line 197): its call ends and its caller,
\* if any, resumes.
Returned(s) ==
    IF Len(s) = 1 THEN <<>> ELSE SetTop(Pop(s), Resume(Top(Pop(s))))

InitCast ==
    /\ root \in 0 .. MaxRootDepth
    /\ stack = <<Frame(root)>>
    /\ rstack = <<>>
    /\ cdone = FALSE
    /\ maxdepth = root
    /\ rnest = 0
    /\ SceneIdle /\ PixIdle /\ OutIdle

\* Lines 180-182: scene_intersect reports hit; the base case returns.
CastIntersect(hit) ==
    /\ stack # <<>>
    /\ Top(stack).pc = "intersect"
    /\ IF ReturnsBackground(Top(stack).depth, hit)
       THEN /\ stack' = Returned(stack)
            /\ cdone' = (Len(stack) = 1)
       ELSE /\ stack' = SetTop(stack, [Top(stack) EXCEPT !.pc = "dirs"])
            /\ UNCHANGED cdone
    /\ UNCHANGED <<rstack, root, maxdepth, rnest, sceneVars, pixVars, outVars>>

\* Lines 184-185: reflect_dir is computed and refract is called.
RefractCall(dot) ==
    /\ stack # <<>>
    /\ Top(stack).pc = "dirs"
    /\ stack' = SetTop(stack, [Top(stack) EXCEPT !.pc = "dirs_wait"])
    /\ rstack' = <<[dot |-> dot, eta_t |-> "refractive_index", eta_i |-> "1", pc |-> "run"]>>
    /\ rnest' = Max(rnest, 1)
    /\ UNCHANGED <<root, cdone, maxdepth, sceneVars, pixVars, outVars>>

\* Lines 77-78: cosi < 0, and refract calls itself.
RefractRecurse ==
    /\ rstack # <<>>
    /\ Top(rstack).pc = "run"
    /\ Cosi(Top(rstack).dot) < 0
    /\ Len(rstack) < MaxRefractNest
    /\ rstack' = Append(SetTop(rstack, [Top(rstack) EXCEPT !.pc = "wait"]),
                        RefractArgs(Top(rstack)))
    /\ rnest' = Max(rnest, Len(rstack) + 1)
    /\ UNCHANGED <<stack, root, cdone, maxdepth, sceneVars, pixVars, outVars>>

\* Lines 79-81, or the return of line 78: refract returns to refract or to
\* cast_ray, which goes on to line 186.
RefractReturn ==
    /\ rstack # <<>>
    /\ \/ Top(rstack).pc = "run" /\ Cosi(Top(rstack).dot) >= 0
       \/ Top(rstack).pc = "returning"
    /\ IF Len(rstack) = 1
       THEN /\ rstack' = <<>>
            /\ stack' = SetTop(stack, [Top(stack) EXCEPT !.pc = "reflect_call"])
       ELSE /\ rstack' = SetTop(Pop(rstack), [Top(Pop(rstack)) EXCEPT !.pc = "returning"])
            /\ UNCHANGED stack
    /\ UNCHANGED <<root, cdone, maxdepth, rnest, sceneVars, pixVars, outVars>>

\* Lines 186 and 187: cast_ray calls itself with depth + 1.
CastRecurse ==
    /\ stack # <<>>
    /\ Top(stack).pc \in {"reflect_call", "refract_call"}
    /\ Len(stack) < MaxStack
    /\ stack' = Append(SetTop(stack, [Top(stack) EXCEPT
                           !.pc = IF @ = "reflect_call" THEN "reflect_wait" ELSE "refract_wait"]),
                       Frame(Top(stack).depth + 1))
    /\ maxdepth' = Max(maxdepth, Top(stack).depth + 1)
    /\ UNCHANGED <<rstack, root, cdone, rnest, sceneVars, pixVars, outVars>>

\* Lines 190-196: one iteration of the loop over the lights; the light is
\* skipped when the shadow ray is blocked.
CastLight(blocked) ==
    /\ stack # <<>>
    /\ Top(stack).pc = "lights"
    /\ Top(stack).light < Len(lights)
    /\ stack' = SetTop(stack, [Top(stack) EXCEPT
                                   !.light = @ + 1,
                                   !.lit = IF blocked THEN @ ELSE @ + 1])
    /\ UNCHANGED <<rstack, root, cdone, maxdepth, rnest, sceneVars, pixVars, outVars>>

\* Line 197.
CastReturn ==
    /\ stack # <<>>
    /\ Top(stack).pc = "lights"
    /\ Top(stack).light = Len(lights)
    /\ stack' = Returned(stack)
    /\ cdone' = (Len(stack) = 1)
    /\ UNCHANGED <<rstack, root, maxdepth, rnest, sceneVars, pixVars, outVars>>

NextCast ==
    \/ \E hit \in BOOLEAN : CastIntersect(hit)
    \/ \E dot \in -MaxDot .. MaxDot : RefractCall(dot)
    \/ RefractRecurse
    \/ RefractReturn
    \/ CastRecurse
    \/ \E blocked \in BOOLEAN : CastLight(blocked)
    \/ CastReturn

SpecCast == InitCast /\ [][NextCast]_vars

\* The calls run on one thread, which never stops while a call is active.
LiveCast == SpecCast /\ WF_vars(NextCast)

-----------------------------------------------------------------------------
(* The parallel loop of main over the first NumPixels pixels, executed by  *)
(* NumTasks tasks                                                          *)

width == 1024

height == 768

NumPixels == 3

NumTasks == 2

Pixels == 0 .. NumPixels - 1

Tasks == 1 .. NumTasks

\* Lines 207-208: twice dir_x and twice dir_y of pixel pix.
CameraDir(pix) ==
    [dir_x2 |-> (2 * (pix % width) + 1) - width,
     dir_y2 |-> -(2 * (pix \div width) + 1) + height]

\* Line 210: the colour cast_ray returns for the camera ray of direction d;
\* cast_ray reads the scene and its arguments only.
PixelColor(d, sc) == [cast_ray |-> d, scene |-> sc]

\* Every task executes every iteration.
ExecutesAll(t, pix) == TRUE

\* Line 205: the parallel for gives each iteration to one task.
Executes(t, pix) == owner[pix] = t

TaskIdle == [pc |-> "idle", pix |-> 0, dir |-> CameraDir(0), val |-> V(0, 0, 0)]

InitPix ==
    /\ scene = SceneData
    /\ framebuffer = [pix \in Pixels |-> V(0, 0, 0)]
    /\ owner \in [Pixels -> Tasks]
    /\ task = [t \in Tasks |-> TaskIdle]
    /\ iterated = [t \in Tasks |-> {}]
    /\ writes = [pix \in Pixels |-> <<>>]
    /\ mpc = "loop"
    /\ SceneIdle /\ CastIdle /\ OutIdle

\* Line 206: task t starts one of its iterations.
TaskBegin(t, pix) ==
    /\ mpc = "loop"
    /\ task[t].pc = "idle"
    /\ Executes(t, pix)
    /\ pix \notin iterated[t]
    /\ task' = [task EXCEPT ![t] = [@ EXCEPT !.pc = "dir", !.pix = pix]]
    /\ UNCHANGED <<scene, framebuffer, owner, iterated, writes, mpc,
                   sceneVars, castVars, outVars>>

\* Lines 207-209: the camera ray of the pixel.
TaskDir(t) ==
    /\ task[t].pc = "dir"
    /\ task' = [task EXCEPT ![t] = [@ EXCEPT !.pc = "cast", !.dir = CameraDir(task[t].pix)]]
    /\ UNCHANGED <<scene, framebuffer, owner, iterated, writes, mpc,
                   sceneVars, castVars, outVars>>

\* Line 210, right-hand side: cast_ray.
TaskCast(t) ==
    /\ task[t].pc = "cast"
    /\ task' = [task EXCEPT ![t] = [@ EXCEPT !.pc = "store", !.val = PixelColor(task[t].dir, scene)]]
    /\ UNCHANGED <<scene, framebuffer, owner, iterated, writes, mpc,
                   sceneVars, castVars, outVars>>

\* Line 210: the store to framebuffer[pix], and the end of the iteration.
TaskStore(t) ==
    /\ task[t].pc = "store"
    /\ framebuffer' = [framebuffer EXCEPT ![task[t].pix] = task[t].val]
    /\ writes' = [writes EXCEPT ![task[t].pix] = Append(@, t)]
    /\ iterated' = [iterated EXCEPT ![t] = @ \cup {task[t].pix}]
    /\ task' = [task EXCEPT ![t] = [@ EXCEPT !.pc = "idle"]]
    /\ UNCHANGED <<scene, owner, mpc, sceneVars, castVars, outVars>>

\* Line 211: the end of the parallel region, once every task has executed
\* all its iterations.
Join ==
    /\ mpc = "loop"
    /\ \A t \in Tasks :
          /\ task[t].pc = "idle"
          /\ \A pix \in Pixels : Executes(t, pix) => pix \in iterated[t]
    /\ mpc' = "joined"
    /\ UNCHANGED <<scene, framebuffer, owner, task, iterated, writes,
                   sceneVars, castVars, outVars>>

NextPix ==
    \/ \E t \in Tasks, pix \in Pixels : TaskBegin(t, pix)
    \/ \E t \in Tasks : TaskDir(t)
    \/ \E t \in Tasks : TaskCast(t)
    \/ \E t \in Tasks : TaskStore(t)
    \/ Join

SpecPix == InitPix /\ [][NextPix]_vars

-----------------------------------------------------------------------------
(* The output loop of main on one element of the framebuffer *)

\* Channels are the multiples of 1/ChanDen up to MaxChan.
ChanDen == 4

MaxChan == 2

Channels == { FR(i, ChanDen) : i \in 0 .. MaxChan * ChanDen }

\* std::max on floats.
FMax(a, b) == IF FLt(a, b) THEN b ELSE a

\* A conversion that rounds to the nearest integer.
ToCharRounded(x, signed) ==
    LET v == FToInt(FAdd(x, FR(1, 2)))
    IN  IF signed /\ v > 127 THEN v - 256 ELSE v

\* Line 219: (char)x truncates x toward zero; a value above 127 does not fit
\* a signed char, and the builds keep its low eight bits.
ToChar(x, signed) ==
    LET v == FToInt(x)
    IN  IF signed /\ v > 127 THEN v - 256 ELSE v

\* Line 219: ofs << c writes the one byte of c.
Byte(c) == c % 256

InitOut ==
    /\ color \in Channels \X Channels \X Channels
    /\ max = F(1)
    /\ chan = -1
    /\ ofs = <<>>
    /\ char_signed \in BOOLEAN
    /\ SceneIdle /\ CastIdle /\ PixIdle

\* Line 217.
OutMax ==
    /\ chan = -1
    /\ max' = FMax(F(1), FMax(color[1], FMax(color[2], color[3])))
    /\ chan' = 0
    /\ UNCHANGED <<color, ofs, char_signed, sceneVars, castVars, pixVars>>

\* Lines 218-219: one channel is written.
OutChan ==
    /\ chan \in 0 .. 2
    /\ ofs' = Append(ofs, Byte(ToChar(FDiv(FMul(F(255), color[chan + 1]), max), char_signed)))
    /\ chan' = chan + 1
    /\ UNCHANGED <<color, max, char_signed, sceneVars, castVars, pixVars>>

NextOut == OutMax \/ OutChan

SpecOut == InitOut /\ [][NextOut]_vars

-----------------------------------------------------------------------------
(* Claims about the intersection routines and the scene intersector *)

Called == spc # "idle"

\* C3: every hit that scene_intersect accepts, from the plane, a sphere or the
\* box, lies at a distance strictly greater than 0.001 from the ray origin.
\* The box accepts tmin > 0: a ray starting 0.0005 in front of a face is
\* accepted at distance 0.0005.
C3_AcceptedBeyondEps ==
    Called => \A i \in 1 .. 3 :
        loc[i].nearest_dist # E10 => FGt(loc[i].nearest_dist, Eps)

IsOneHot(n) ==
    \E i \in 1 .. 3 : n[i] = F(1) /\ \A j \in (1 .. 3) \ {i} : n[j] = F(0)

\* C9: whenever ray_cube_intersect reports a hit, the returned normal has
\* exactly one component 1 and two components 0, also for a ray entering
\* through an edge or a corner. Such a ray gets a 1 on every tied axis.
C9_CubeNormalOneHot == Called /\ cres.hit => IsOneHot(cres.N)

\* The quadratic whose roots are the distances at which a ray of unit
\* direction meets a sphere: t^2 - 2*tca*t + c with tca = L.dir, c = L.L - r^2.
SphereF(tca, c, t) == FAdd(FSub(FMul(t, t), FMul(FMul(F(2), tca), t)), c)

\* C10: ray_sphere_intersect reports no hit when d2 > radius^2 (disc < 0); at
\* d2 = radius^2 it reports the tangent distance tca if that exceeds 0.001;
\* a reported distance is a root of the quadratic above 0.001 with no smaller
\* root above 0.001; a hit is reported exactly when some root exceeds 0.001
\* (eps lies below the vertex tca or strictly between the roots); and a
\* sphere behind an origin outside it is never hit.
C10_SphereSmallestRoot ==
    Called => \A i \in 1 .. Len(spheres) :
        LET s == spheres[i]
            r == sres[i]
            L == VSub(s.center, ray_orig)
            tca == Dot(L, ray_dir)
            c == FSub(Dot(L, L), FMul(s.radius, s.radius))
            disc == FSub(FMul(tca, tca), c)
            other == FSub(FMul(F(2), tca), r.d)
        IN  /\ FLt(disc, F(0)) => ~r.hit
            /\ FEq(disc, F(0)) =>
                  /\ r.hit <=> FGt(tca, Eps)
                  /\ r.hit => FEq(r.d, tca)
            /\ r.hit =>
                  /\ FGt(r.d, Eps)
                  /\ FEq(SphereF(tca, c, r.d), F(0))
                  /\ ~(FGt(other, Eps) /\ FLt(other, r.d))
            /\ r.hit <=>
                  /\ FGe(disc, F(0))
                  /\ FGt(tca, Eps) \/ FLt(c, FMul(Eps, FSub(FMul(F(2), tca), Eps)))
            /\ FGt(c, F(0)) /\ ~FGt(tca, F(0)) => ~r.hit

\* C10 witness: a ray starting on or inside a sphere, whose nearer root is not
\* above 0.001, is reported at the farther root (here an irrational one).
C10_Witness ==
    /\ Called
    /\ \E i \in 1 .. Len(spheres) :
        LET tca == Dot(VSub(spheres[i].center, ray_orig), ray_dir)
        IN  /\ sres[i].hit
            /\ ~FGt(FSub(FMul(F(2), tca), sres[i].d), Eps)
            /\ ~IsRat(sres[i].d)

\* The candidates of a ray, in the order tested: the plane, the spheres, the box.
PlaneCandidate ==
    IF FGt(FAbs(ray_dir[2]), Eps)
    THEN LET t == FDiv(FSub(F(-3), ray_orig[2]), ray_dir[2])
             p == VAdd(ray_orig, VScale(ray_dir, t))
         IN  [ok |-> /\ FGt(t, Eps) /\ FLt(F(-12), p[1]) /\ FLt(p[1], F(12))
                     /\ FLt(F(-28), p[3]) /\ FLt(p[3], F(-12)),
              d |-> t, pt |-> p, N |-> V(0, 1, 0), material |-> DefaultMaterial]
    ELSE [ok |-> FALSE, d |-> F(0), pt |-> V(0, 0, 0), N |-> V(0, 0, 0),
          material |-> DefaultMaterial]

SphereCandidate(i) ==
    IF sres[i].hit
    THEN LET p == VAdd(ray_orig, VScale(ray_dir, sres[i].d))
         IN  [ok |-> TRUE, d |-> sres[i].d, pt |-> p,
              N |-> VScale(VSub(p, spheres[i].center), FDiv(F(1), spheres[i].radius)),
              material |-> spheres[i].material]
    ELSE [ok |-> FALSE, d |-> F(0), pt |-> V(0, 0, 0), N |-> V(0, 0, 0),
          material |-> spheres[i].material]

\* ray_cube_intersect can report a hit at distance +inf (a NaN slab bound of a
\* ray in a face's plane hides the miss); the scene never accepts that one.
CubeCandidate ==
    IF cres.hit /\ FLt(cres.d, E10)
    THEN [ok |-> TRUE, d |-> cres.d, pt |-> VAdd(ray_orig, VScale(ray_dir, cres.d)),
          N |-> cres.N, material |-> cube.material]
    ELSE [ok |-> FALSE, d |-> F(0), pt |-> V(0, 0, 0), N |-> V(0, 0, 0),
          material |-> cube.material]

Candidates ==
    [i \in 1 .. Len(spheres) + 2 |->
        IF i = 1 THEN PlaneCandidate
        ELSE IF i = Len(spheres) + 2 THEN CubeCandidate
        ELSE SphereCandidate(i - 1)]

Valid(cands) == { i \in DOMAIN cands : cands[i].ok }

\* The returned point, normal and material are those of candidate c, the i-th
\* (of the plane's material only the diffuse colour is set, on the default
\* material).
ReturnedIs(c, i) ==
    /\ loc[3].nearest_dist = c.d
    /\ res.pt = c.pt
    /\ res.N = c.N
    /\ IF i = 1
       THEN res.material = [c.material EXCEPT !.diffuse_color = res.material.diffuse_color]
       ELSE res.material = c.material

\* C4: the returned point, normal and material all belong to one candidate
\* whose distance is the minimum over the accepted candidates (so a strictly
\* nearer candidate wins whatever the test order), and hit is true exactly
\* when that minimum is below 1000.
C4_NearestCandidateWins ==
    Called =>
        LET cands == Candidates
            valid == Valid(cands)
        IN  /\ valid = {} => ~res.hit /\ loc[3] = SceneLocals0
            /\ valid # {} =>
                  \E i \in valid :
                      /\ ReturnedIs(cands[i], i)
                      /\ \A j \in valid : ~FGt(cands[i].d, cands[j].d)
                      /\ res.hit <=> FLt(cands[i].d, F(1000))

\* C4 witness: a hit where a candidate tested later is strictly nearer than
\* one tested earlier, and the later one is returned.
C4_Witness ==
    /\ Called
    /\ res.hit
    /\ LET cands == Candidates
           valid == Valid(cands)
       IN  \E i, j \in valid :
               /\ i < j
               /\ ReturnedIs(cands[j], j)
               /\ FLt(cands[j].d, cands[i].d)

IsC6Ray == ray_orig = V(0, 5, 0) /\ ray_dir = V(0, -1, 0)

\* A ray straight down from height 5 that reaches the plane inside its extent
\* and misses every sphere and the box.
IsPlaneOnlyRay ==
    /\ ray_orig[2] = F(5) /\ ray_dir = V(0, -1, 0)
    /\ Valid(Candidates) = {1}

\* C6 as claimed: the ray from (0,5,0) along (0,-1,0) gets a hit on the plane
\* at y = -3 with one of the two checkerboard colours, and cast_ray does not
\* return the background colour.
C6_DownRayHitsPlane ==
    spc = "returned" /\ IsC6Ray =>
        /\ res.hit
        /\ res.pt[2] = F(-3)
        /\ res.material.diffuse_color \in {CheckerOdd, CheckerEven}
        /\ ~ret.background

\* C6 as amended: that ray reaches y = -3 at (0,-3,0), outside the plane's
\* extent, so nothing is hit and cast_ray returns the background colour; a
\* ray straight down from height 5 that reaches the plane inside its extent
\* and misses the spheres and the box gets a hit at y = -3 with one of the two
\* checkerboard colours, and cast_ray does not take the background branch.
C6_DownRayMissesPlane ==
    /\ spc = "returned" /\ IsC6Ray =>
          /\ ~res.hit
          /\ loc[1] = SceneLocals0
          /\ ret.background /\ ret.color = Background
    /\ spc = "returned" /\ IsPlaneOnlyRay =>
          /\ res.hit
          /\ res.pt = <<ray_orig[1], F(-3), ray_orig[3]>>
          /\ res.N = V(0, 1, 0)
          /\ res.material.diffuse_color \in {CheckerOdd, CheckerEven}
          /\ ~ret.background

C6_Witness == spc = "returned" /\ IsC6Ray /\ ret.background

C6_WitnessPlane == spc = "returned" /\ IsPlaneOnlyRay /\ ~ret.background

QFloor(x) == x[1] \div x[2]

QTrunc(x) == IF x[1] < 0 THEN -((-x[1]) \div x[2]) ELSE x[1] \div x[2]

PlaneAccepted == Called /\ loc[1].nearest_dist # E10

HalfX == QAdd(QMul(Frac(1, 2), loc[1].pt[1].a), Q(1000))

HalfZ == QMul(Frac(1, 2), loc[1].pt[3].a)

\* C7 as claimed: the colour of an accepted plane hit follows the parity of
\* floor(0.5*x + 1000) + floor(0.5*z), odd giving (.4,.4,.4).
C7_FloorParity ==
    PlaneAccepted =>
        loc[1].material.diffuse_color =
            IF (QFloor(HalfX) + QFloor(HalfZ)) % 2 = 1 THEN CheckerOdd ELSE CheckerEven

\* C7 as amended: the parity is that of int(0.5*x + 1000) + int(0.5*z), where
\* int truncates toward zero (0.5*z is negative on the plane, so it is rounded
\* up, not down); odd gives (.4,.4,.4) and even (.4,.3,.2).
C7_TruncParity ==
    PlaneAccepted =>
        /\ FLt(F(-12), loc[1].pt[1]) /\ FLt(loc[1].pt[1], F(12))
        /\ FLt(F(-28), loc[1].pt[3]) /\ FLt(loc[1].pt[3], F(-12))
        /\ loc[1].material.diffuse_color =
              IF (QTrunc(HalfX) + QTrunc(HalfZ)) % 2 = 1 THEN CheckerOdd ELSE CheckerEven

\* C7 witness: an accepted plane hit where 0.5*z is not an integer, so that
\* truncation and floor differ.
C7_Witness ==
    /\ PlaneAccepted
    /\ QTrunc(HalfZ) # QFloor(HalfZ)
    /\ HalfX[2] # 1

-----------------------------------------------------------------------------
(* Claims about the recursion of cast_ray *)

\* The depth arguments cast_ray passed to itself in the active calls.
PassedDepths == { stack[i].depth : i \in 2 .. Len(stack) }

\* C1 as stated: from a primary ray (depth 0), the depth passed to a recursive
\* call of cast_ray never exceeds 4, and at most 5 calls of cast_ray are
\* nested.
C1_DepthAtMostFour ==
    root = 0 => /\ \A d \in PassedDepths : d <= 4
                /\ maxdepth <= 4
                /\ Len(stack) <= 5

\* C1 as amended: from a primary ray, the depth passed to a recursive call of
\* cast_ray never exceeds 5, at most 6 calls of cast_ray are nested (depths
\* 0..5), the calls are nested in order of depth, and the call of depth 5
\* returns the background without calling cast_ray or refract.
C1_DepthAtMostFive ==
    root = 0 => /\ \A d \in PassedDepths : d <= DepthLimit + 1
                /\ maxdepth <= DepthLimit + 1
                /\ Len(stack) <= DepthLimit + 2
                /\ \A i \in 1 .. Len(stack) :
                      /\ stack[i].depth = i - 1
                      /\ stack[i].depth > DepthLimit => stack[i].pc = "intersect"

\* C1 witness: six nested calls, the innermost of depth 5.
C1_Witness == root = 0 /\ Len(stack) = 6 /\ Top(stack).depth = 5

\* C2: every call cast_ray(orig, dir, depth), depth >= 0, eventually returns,
\* whatever the intersections report, and every call of refract returns.
C2_CastRayReturns == (<>cdone) /\ ((rstack # <<>>) ~> (rstack = <<>>))

\* C2 witness: a primary ray that hit geometry down to the deepest level, and
\* whose refract called itself, has returned.
C2_Witness == cdone /\ root = 0 /\ maxdepth = DepthLimit + 1 /\ rnest = 2

-----------------------------------------------------------------------------
(* Claims about the parallel loop *)

\* The framebuffer after the loop of lines 206-211 run by one thread, from pix on.
RECURSIVE SequentialLoop(_, _)
SequentialLoop(fb, pix) ==
    IF pix >= NumPixels THEN fb
    ELSE SequentialLoop([fb EXCEPT ![pix] = PixelColor(CameraDir(pix), SceneData)], pix + 1)

\* C5: a slot is written at most once and by the task that owns its index,
\* the scene data is never written, and after the loop every slot has been
\* written exactly once and the framebuffer is the one of the sequential loop.
C5_ParallelLoop ==
    mpc \in {"loop", "joined"} =>
        /\ \A pix \in Pixels :
              /\ Len(writes[pix]) <= 1
              /\ \A i \in 1 .. Len(writes[pix]) : writes[pix][i] = owner[pix]
        /\ scene = SceneData
        /\ mpc = "joined" =>
              /\ \A pix \in Pixels : Len(writes[pix]) = 1
              /\ framebuffer = SequentialLoop([pix \in Pixels |-> V(0, 0, 0)], 0)

\* C5 witness: the loop has ended and two tasks have stored pixels.
C5_Witness ==
    /\ mpc = "joined"
    /\ \E p, q \in Pixels : writes[p] # <<>> /\ writes[q] # <<>> /\ writes[p] # writes[q]

-----------------------------------------------------------------------------
(* Claims about the output loop *)

\* The exact value of 255 * channel / scale, scale = max(1, max(r, g, b)), as
\* a rational.
Scale == LET m == IF QLt(color[1].a, color[2].a) THEN color[2].a ELSE color[1].a
             n == IF QLt(m, color[3].a) THEN color[3].a ELSE m
         IN  IF QLt(n, Q(1)) THEN Q(1) ELSE n

Scaled(i) == QDiv(QMul(Q(255), color[i].a), Scale)

\* round(x) and the integer part of x, x >= 0.
RoundQ(x) == (2 * x[1] + x[2]) \div (2 * x[2])

FloorQ(x) == x[1] \div x[2]

Written == chan = 3

\* C8 as stated: the three bytes written are round(255 * channel / scale) for
\* R, G, B in that order, each in 0..255.
C8_RoundedBytes ==
    Written => /\ Len(ofs) = 3
               /\ \A i \in 1 .. 3 : ofs[i] = RoundQ(Scaled(i)) /\ ofs[i] \in 0 .. 255

\* C8 as amended: the three bytes written are 255 * channel / scale with the
\* fraction dropped, for R, G, B in that order, each in 0..255.
C8_TruncatedBytes ==
    Written => /\ Len(ofs) = 3
               /\ \A i \in 1 .. 3 : ofs[i] = FloorQ(Scaled(i)) /\ ofs[i] \in 0 .. 255

\* C8 witness: a written channel whose value has fraction 1/2 or more, and a
\* byte above 127 written by a build whose char is signed.
C8_Witness ==
    /\ Written
    /\ char_signed
    /\ \E i \in 1 .. 3 : RoundQ(Scaled(i)) # FloorQ(Scaled(i))
    /\ \E i \in 1 .. 3 : ofs[i] > 127


=============================================================================
